---- MODULE Spec2Model ----
(***************************************************************************)
(* Model of the double-colour-ball (SSQ) analysis scripts:                 *)
(*   src/get_ssq_whole.py  class LotteryAnalyzer (normalised int records)  *)
(*   src/get_ssq_seg.py    plain functions over the raw string records     *)
(*                                                                         *)
(* A Python str is a sequence of one-character strings, a list is a        *)
(* sequence, and a dict is the sequence of its <<key, value>> items in     *)
(* insertion order (the order sorted(), max() and list(d.keys()) see).     *)
(* A float quotient count / total is kept exact as the pair                *)
(* <<count, total>>; comparisons against 0.5 and between scores are made   *)
(* on the exact values.  A raised exception is the result record           *)
(* [err |-> <exception name>].                                             *)
(***************************************************************************)
EXTENDS Integers, Sequences, FiniteSets, TLC

VARIABLES history, results, pc, out

vars == <<history, results, pc, out>>

----------------------------------------------------------------------------
(* Bounds of the explored inputs *)

\* corpora of 0..SmallLen records are explored exhaustively over the patterns
SmallLen == 3
\* corpora of MIN_SAMPLE-1 .. MIN_SAMPLE+ExtraLen records surround the predictor's threshold
ExtraLen == 0
\* the red draws of a corpus repeat with a period of at most MaxPeriod draws
MaxPeriod == 2

----------------------------------------------------------------------------
(* Program constants *)

RED_BALL_RANGE == <<1, 34>>
BLUE_BALL_RANGE == <<1, 17>>
\* default of the top_n parameter of analyze_frequency / frequency_analysis
DEFAULT_TOP_N == 10
\* minimum corpus size of predict_next_result
MIN_SAMPLE == 30
\* slice sizes of the predictor's candidate filters
RED_TOP_FREQ == 15
RED_TOP_OMISSION == 10
BLUE_TOP_FREQ == 5
BLUE_TOP_OMISSION == 3
\* number of red balls of the suggested combination
RED_PICK == 6

\* range(*r)
PyRange(r) == r[1] .. (r[2] - 1)
RedDomain == PyRange(RED_BALL_RANGE)
BlueDomain == PyRange(BLUE_BALL_RANGE)

----------------------------------------------------------------------------
(* Sequence helpers *)

None == "None"

Min(a, b) == IF a <= b THEN a ELSE b

\* s[:n] for n >= 0
Take(s, n) == SubSeq(s, 1, Min(n, Len(s)))

SeqToSet(s) == {s[i] : i \in 1..Len(s)}

\* x in list
InSeq(x, s) == \E i \in 1..Len(s) : s[i] = x

RECURSIVE SumSeq(_)
SumSeq(s) == IF s = <<>> THEN 0 ELSE Head(s) + SumSeq(Tail(s))

\* sorted(xs, ...): Python's sort is stable, so its result is the one
\* arrangement in which x stands before y exactly when x sorts before y, or
\* neither sorts before the other and x stood before y in the input.
\* before[i][j] says that xs[i] sorts strictly before xs[j].
StableSort(xs, before) ==
    LET n == Len(xs)
        ahead == <<>> \o [i \in 1..n |->
                    Cardinality({j \in 1..n :
                        before[j][i] \/ (~before[i][j] /\ j < i)})]
    IN <<>> \o [k \in 1..n |-> xs[CHOOSE i \in 1..n : ahead[i] = k - 1]]

\* sorted(list) of integers, ascending, repeats kept
AscBefore(a, b) == a < b
SortedAsc(xs) ==
    StableSort(xs, [i \in 1..Len(xs) |-> [j \in 1..Len(xs) |-> AscBefore(xs[i], xs[j])]])

\* sorted(list(set(...))): the members of a set of integers, ascending
SortedSet(S) ==
    <<>> \o [k \in 1..Cardinality(S) |->
                CHOOSE x \in S : Cardinality({y \in S : y < x}) = k - 1]

\* dict.get(key, default) / key in dict on an item list
HasKey(d, k) == \E i \in 1..Len(d) : d[i][1] = k
Get(d, k, default) ==
    IF HasKey(d, k) THEN d[CHOOSE i \in 1..Len(d) : d[i][1] = k][2] ELSE default
Keys(d) == [i \in 1..Len(d) |-> d[i][1]]
Values(d) == [i \in 1..Len(d) |-> d[i][2]]

\* mutation of DescBefore: reverse=True left out
DescBefore_Ascending(a, b) == a[2] < b[2]

\* sorted(items, key=lambda x: x[1], reverse=True) on integer values: items of
\* equal value keep the order they had in the input
DescBefore(a, b) == a[2] > b[2]
SortedDesc(items) ==
    StableSort(items, [i \in 1..Len(items) |->
                          [j \in 1..Len(items) |-> DescBefore(items[i], items[j])]])

----------------------------------------------------------------------------
(* Strings: the supplier's text fields and their parsing *)

Digits == <<"0", "1", "2", "3", "4", "5", "6", "7", "8", "9">>
IsDigit(c) == \E i \in 1..10 : Digits[i] = c
DigitVal(c) == (CHOOSE i \in 1..10 : Digits[i] = c) - 1

\* str(i).zfill(2), the two-digit form the supplier and omission_analysis use
Zfill2(n) == <<Digits[(n \div 10) + 1], Digits[(n % 10) + 1]>>

\* ",".join(tokens)
RECURSIVE Join(_)
Join(toks) ==
    IF toks = <<>> THEN <<>>
    ELSE IF Len(toks) = 1 THEN toks[1]
    ELSE toks[1] \o <<",">> \o Join(Tail(toks))

\* str.split(sep): always at least one token, empty tokens kept
RECURSIVE SplitFrom(_, _, _)
SplitFrom(s, sep, cur) ==
    IF s = <<>> THEN <<cur>>
    ELSE IF Head(s) = sep THEN <<cur>> \o SplitFrom(Tail(s), sep, <<>>)
    ELSE SplitFrom(Tail(s), sep, Append(cur, Head(s)))
Split(s, sep) == SplitFrom(s, sep, <<>>)

\* int(token) succeeds on a non-empty run of digits
IsInt(tok) == tok # <<>> /\ \A i \in 1..Len(tok) : IsDigit(tok[i])
RECURSIVE IntOf(_)
IntOf(tok) ==
    IF tok = <<>> THEN 0
    ELSE 10 * IntOf(SubSeq(tok, 1, Len(tok) - 1)) + DigitVal(tok[Len(tok)])

----------------------------------------------------------------------------
(* The supplier's history: data['result'] of the draw-notice API, newest     *)
(* draw first.  A raw record carries the red balls as one comma-separated    *)
(* string and the blue ball as a string; code, date and poolmoney are opaque *)
(* and copied through unread, so they are left out.                          *)

\* red draws as the supplier lists them (ascending, two digits each)
RedDraws ==
    << <<1, 3, 5, 7, 9, 11>>,
       <<13, 15, 17, 19, 21, 32>>,
       <<2, 4, 6, 8, 10, 12>>,
       <<23, 24, 28, 30, 32, 33>> >>

RawRecord(reds, blue) ==
    [red |-> Join([i \in 1..Len(reds) |-> Zfill2(reds[i])]), blue |-> Zfill2(blue)]

\* records that break the DrawRecord invariant: five reds, a repeated red, a
\* red above the range, a blue above the range, a token that is no number
Malformed ==
    << RawRecord(<<1, 2, 3, 4, 5>>, 7),
       RawRecord(<<1, 1, 2, 3, 4, 5>>, 7),
       RawRecord(<<1, 2, 3, 4, 5, 34>>, 7),
       RawRecord(<<1, 2, 3, 4, 5, 6>>, 17),
       [red |-> Join(<<Zfill2(1), Zfill2(2), Zfill2(3), Zfill2(4), Zfill2(5), <<"x">> >>),
        blue |-> Zfill2(7)] >>

Patterns == UNION {[1..p -> 1..Len(RedDraws)] : p \in 1..MaxPeriod}
BlueStarts == {1, 2}
BlueSteps == {0, 1}
IssueCounts == (0..SmallLen) \cup ((MIN_SAMPLE - 1)..(MIN_SAMPLE + ExtraLen))
\* top_n arguments: short slices, the default, and one that truncates nothing
TopNs == {0, 1, 2, DEFAULT_TOP_N, Cardinality(RedDomain)}

\* n well-formed draws: the reds follow the pattern p, the blue ball starts at
\* b0 and advances by step each draw
Supply(p, b0, step, n) ==
    [i \in 1..n |->
        RawRecord(RedDraws[p[((i - 1) % Len(p)) + 1]],
                  ((b0 - 1 + (i - 1) * step) % Cardinality(BlueDomain)) + 1)]

GoodHistories ==
    {Supply(p, b0, step, n) :
        p \in Patterns, b0 \in BlueStarts, step \in BlueSteps, n \in IssueCounts}

\* a malformed record arriving as the newest draw of a short history
BadHistories ==
    {<<Malformed[k]>> \o Supply(p, 1, 0, n) :
        k \in 1..Len(Malformed), p \in {q \in Patterns : Len(q) = 1}, n \in 0..SmallLen}

----------------------------------------------------------------------------
(* get_ssq_whole.py: normalisation *)

\* int() raises ValueError on a token that is no number
IntRaises(result) ==
    \/ \E i \in 1..Len(Split(result.red, ",")) : ~IsInt(Split(result.red, ",")[i])
    \/ ~IsInt(result.blue)

\* format_result: '红球' is the field reds, '蓝球' the field blue
format_result(result) ==
    [reds |-> [i \in 1..Len(Split(result.red, ",")) |-> IntOf(Split(result.red, ",")[i])],
     blue |-> IntOf(result.blue)]

\* the DrawRecord invariant of the data model
ValidRecord(r) ==
    /\ Len(r.reds) = 6
    /\ \A i \in 1..6 : r.reds[i] \in RedDomain
    /\ \A i, j \in 1..6 : i # j => r.reds[i] # r.reds[j]
    /\ r.blue \in BlueDomain
ValidCorpus(rs) == \A i \in 1..Len(rs) : ValidRecord(rs[i])

----------------------------------------------------------------------------
(* get_ssq_whole.py: the analyzers *)

\* {ball: 0 for ball in range(*r)} as a function; Items lists it in key order
ZeroTable(dom) == [b \in dom |-> 0]
Items(t, r) == [i \in 1..(r[2] - r[1]) |-> <<r[1] + i - 1, t[r[1] + i - 1]>>]

\* all red balls of the corpus, in the order the loops visit them
RECURSIVE AllReds(_)
AllReds(rs) == IF rs = <<>> THEN <<>> ELSE Head(rs).reds \o AllReds(Tail(rs))
AllBlues(rs) == [i \in 1..Len(rs) |-> rs[i].blue]

\* mutation of CountBalls: a ball counted once however often it is visited
CountBalls_Presence(counts, balls) ==
    [b \in DOMAIN counts |-> counts[b] + (IF InSeq(b, balls) THEN 1 ELSE 0)]

\* the table after  for ball in balls: counts[ball] += 1  : every visit of a
\* ball adds one to its entry
CountBalls(counts, balls) ==
    [b \in DOMAIN counts |-> counts[b] + Cardinality({i \in 1..Len(balls) : balls[i] = b})]

RedCounts(counts, rs) == CountBalls(counts, AllReds(rs))
BlueCounts(counts, rs) == CountBalls(counts, AllBlues(rs))

\* counts[ball] += 1 on a ball that is no key of the table
FrequencyKeyError(rs) ==
    \E i \in 1..Len(rs) :
        \/ \E j \in 1..Len(rs[i].reds) : rs[i].reds[j] \notin RedDomain
        \/ rs[i].blue \notin BlueDomain

analyze_frequency(rs, top_n) ==
    IF FrequencyKeyError(rs) THEN [err |-> "KeyError"]
    ELSE [err |-> None,
          red |-> Take(SortedDesc(Items(RedCounts(ZeroTable(RedDomain), rs), RED_BALL_RANGE)), top_n),
          blue |-> Take(SortedDesc(Items(BlueCounts(ZeroTable(BlueDomain), rs), BLUE_BALL_RANGE)), top_n)]

\* the loop of analyze_omission as one ball sees it: the draws are visited in
\* list order, from index 0 on; a draw holding the ball resets its gap to 0,
\* any other draw adds 1.  drawn[i] is the list of balls of draw i.
\* mutation of Gap: the reset and the increment exchanged
RECURSIVE Gap_Inverted(_, _, _)
Gap_Inverted(gap, ball, drawn) ==
    IF drawn = <<>> THEN gap
    ELSE Gap_Inverted(IF InSeq(ball, Head(drawn)) THEN gap + 1 ELSE 0, ball, Tail(drawn))

RECURSIVE Gap(_, _, _)
Gap(gap, ball, drawn) ==
    IF drawn = <<>> THEN gap
    ELSE Gap(IF InSeq(ball, Head(drawn)) THEN 0 ELSE gap + 1, ball, Tail(drawn))

RedOmission(om, rs) ==
    [b \in DOMAIN om |-> Gap(om[b], b, [i \in 1..Len(rs) |-> rs[i].reds])]
BlueOmission(om, rs) ==
    [b \in DOMAIN om |-> Gap(om[b], b, [i \in 1..Len(rs) |-> <<rs[i].blue>>])]

analyze_omission(rs) ==
    [err |-> None,
     red |-> RedOmission(ZeroTable(RedDomain), rs),
     blue |-> BlueOmission(ZeroTable(BlueDomain), rs)]

\* zone labels, the dict keys of analyze_distribution / zone_distribution
RedZoneLabels ==
    << <<"1", "-", "1", "1">>, <<"1", "2", "-", "2", "2">>, <<"2", "3", "-", "3", "3">> >>
BlueZoneLabels == << <<"1", "-", "8">>, <<"9", "-", "1", "6">> >>

\* the if / elif / else of the red zone tally: index of the zone a ball counts in
RedZoneOf(ball) ==
    IF 1 <= ball /\ ball <= 11 THEN 1
    ELSE IF 12 <= ball /\ ball <= 22 THEN 2
    ELSE 3
\* '1-8' if ball <= 8 else '9-16'
BlueZoneOf(ball) == IF ball <= 8 THEN 1 ELSE 2

RedZoneTally(rs) ==
    LET balls == AllReds(rs)
    IN [z \in 1..3 |-> Cardinality({i \in 1..Len(balls) : RedZoneOf(balls[i]) = z})]
BlueZoneTally(rs) ==
    [z \in 1..2 |-> Cardinality({i \in 1..Len(rs) : BlueZoneOf(rs[i].blue) = z})]

\* {zone: count / sum(zones.values())}: the quotient kept as <<count, total>>
Normalise(labels, tally) ==
    [i \in 1..Len(labels) |-> <<labels[i], <<tally[i], SumSeq(tally)>> >>]

analyze_distribution(rs) ==
    IF SumSeq(RedZoneTally(rs)) = 0 \/ SumSeq(BlueZoneTally(rs)) = 0
    THEN [err |-> "ZeroDivisionError"]
    ELSE [err |-> None,
          red |-> Normalise(RedZoneLabels, RedZoneTally(rs)),
          blue |-> Normalise(BlueZoneLabels, BlueZoneTally(rs))]

\* the four tallies of one pool of analyze_ratio: odd, even, big, small
\* ('奇数', '偶数', '大号', '小号'); big starts at the pool's threshold
RatioTally(balls, big_from) ==
    [odd |-> Cardinality({i \in 1..Len(balls) : balls[i] % 2 # 0}),
     even |-> Cardinality({i \in 1..Len(balls) : balls[i] % 2 = 0}),
     big |-> Cardinality({i \in 1..Len(balls) : balls[i] >= big_from}),
     small |-> Cardinality({i \in 1..Len(balls) : ~(balls[i] >= big_from)})]

\* mutation of RatioTotal: the sum of both dimensions left undivided
RatioTotal_Undivided(t) == t.odd + t.even + t.big + t.small

\* total = sum(stats[ball_type].values()) / 2; every value is divided by it
RatioTotal(t) == (t.odd + t.even + t.big + t.small) \div 2
RatioOf(t) ==
    [odd |-> <<t.odd, RatioTotal(t)>>, even |-> <<t.even, RatioTotal(t)>>,
     big |-> <<t.big, RatioTotal(t)>>, small |-> <<t.small, RatioTotal(t)>>]

analyze_ratio(rs) ==
    IF RatioTotal(RatioTally(AllReds(rs), 17)) = 0 \/ RatioTotal(RatioTally(AllBlues(rs), 9)) = 0
    THEN [err |-> "ZeroDivisionError"]
    ELSE [err |-> None,
          red |-> RatioOf(RatioTally(AllReds(rs), 17)),
          blue |-> RatioOf(RatioTally(AllBlues(rs), 9))]

----------------------------------------------------------------------------
(* get_ssq_whole.py: predict_next_result *)

\* comparisons of exact quotients <<num, den>> with den > 0
FracGt(a, b) == a[1] * b[2] > b[1] * a[2]
GtHalf(a) == 2 * a[1] > a[2]

\* max(items, key=lambda x: x[1]): the first item of the greatest value
RECURSIVE MaxFrom(_, _)
MaxFrom(best, rest) ==
    IF rest = <<>> THEN best
    ELSE MaxFrom(IF FracGt(Head(rest)[2], best[2]) THEN Head(rest) ELSE best, Tail(rest))
MaxItem(items) == MaxFrom(Head(items), Tail(items))

\* sorted(scores.items(), key=lambda x: x[1], reverse=True) on quotient values
FracDescBefore(a, b) == FracGt(a[2], b[2])
SortedDescFrac(items) ==
    StableSort(items, [i \in 1..Len(items) |->
                          [j \in 1..Len(items) |-> FracDescBefore(items[i], items[j])]])

\* filter 1: list(freq[pool].keys())[:k]
TopFrequency(freq_pool, k) == SeqToSet(Take(Keys(freq_pool), k))

\* filter 2: the k first balls of the omission table sorted by omission, descending
TopOmission(om_pool, r, k) == SeqToSet(Keys(Take(SortedDesc(Items(om_pool, r)), k)))

\* filter 3: start, end = map(int, max_zone.split('-'));
\*           [x for x in range(start, end + 1) if x in freq['红球']]
ZoneCandidates(zones_pool, freq_pool) ==
    LET max_zone == MaxItem(zones_pool)[1]
        start == IntOf(Split(max_zone, "-")[1])
        end == IntOf(Split(max_zone, "-")[2])
    IN {x \in start..end : HasKey(freq_pool, x)}

\* filter 4: odd_even = '奇数' if ratios[pool]['奇数'] > 0.5 else '偶数';
\*           [x for x in range(lo, hi) if x % 2 == (1 if odd_even == '奇数' else 0)]
ParityCandidates(ratio_pool, r) ==
    {x \in PyRange(r) : x % 2 = (IF GtHalf(ratio_pool.odd) THEN 1 ELSE 0)}

red_candidates(freq, omission, zones, ratios) ==
    SortedSet(TopFrequency(freq.red, RED_TOP_FREQ)
              \cup TopOmission(omission.red, RED_BALL_RANGE, RED_TOP_OMISSION)
              \cup ZoneCandidates(zones.red, freq.red)
              \cup ParityCandidates(ratios.red, RED_BALL_RANGE))

blue_candidates(freq, omission, ratios) ==
    SortedSet(TopFrequency(freq.blue, BLUE_TOP_FREQ)
              \cup TopOmission(omission.blue, BLUE_BALL_RANGE, BLUE_TOP_OMISSION)
              \cup ParityCandidates(ratios.blue, BLUE_BALL_RANGE))

\* A score s is kept as the exact quotient <<num, den>> = 10 * T * s, T the
\* pool's number of ball occurrences (the zone fractions' denominator):
\*   red   10*T*s = 4*f*T + 3*T/(o+1) + 2*z + T*[parity bonus]
\*   blue  10*T*s = 5*f*T + 3*T/(o+1) + 2*z
\* with f the count in the (truncated) frequency table or 0, o the omission
\* and z the tally of the ball's zone.
ParityBonus(ball, ratio_pool) ==
    IF (ball % 2 = 1 /\ GtHalf(ratio_pool.odd)) \/ (ball % 2 = 0 /\ GtHalf(ratio_pool.even))
    THEN 1 ELSE 0

\* mutation of RedScore: the blue pool's scoring (frequency weight 0.5, no
\* parity bonus) applied to the red pool
RedScore_BlueWeights(ball, freq, omission, zones, ratios) ==
    LET f == Get(freq.red, ball, 0)
        o == IF ball \in DOMAIN omission.red THEN omission.red[ball] ELSE 0
        zf == zones.red[RedZoneOf(ball)][2]
    IN <<(5 * f * zf[2] + 2 * zf[1]) * (o + 1) + 3 * zf[2], o + 1>>

RedScore(ball, freq, omission, zones, ratios) ==
    LET f == Get(freq.red, ball, 0)
        o == IF ball \in DOMAIN omission.red THEN omission.red[ball] ELSE 0
        zf == zones.red[RedZoneOf(ball)][2]
    IN <<(4 * f * zf[2] + 2 * zf[1] + ParityBonus(ball, ratios.red) * zf[2]) * (o + 1) + 3 * zf[2],
         o + 1>>

BlueScore(ball, freq, omission, zones) ==
    LET f == Get(freq.blue, ball, 0)
        o == IF ball \in DOMAIN omission.blue THEN omission.blue[ball] ELSE 0
        zf == zones.blue[BlueZoneOf(ball)][2]
    IN <<(5 * f * zf[2] + 2 * zf[1]) * (o + 1) + 3 * zf[2], o + 1>>

\* mutation of InsufficientData: the threshold test written with <= for <
InsufficientData_OffByOne(rs) == rs = <<>> \/ Len(rs) <= MIN_SAMPLE

\* if not results or len(results) < 30: raise ValueError
InsufficientData(rs) == rs = <<>> \/ Len(rs) < MIN_SAMPLE

\* mutation of SuggestedReds: the six balls left in score order
SuggestedReds_Unsorted(red_scores) == Keys(Take(SortedDescFrac(red_scores), RED_PICK))

\* sorted([ball[0] for ball in sorted(red_scores.items(), ...)[:6]])
SuggestedReds(red_scores) == SortedAsc(Keys(Take(SortedDescFrac(red_scores), RED_PICK)))

\* sorted(blue_scores.items(), ...)[0][0]
SuggestedBlue(blue_scores) == SortedDescFrac(blue_scores)[1][1]

predict_next_result(rs) ==
    IF InsufficientData(rs) THEN [err |-> "ValueError"]
    ELSE
    LET freq == analyze_frequency(rs, DEFAULT_TOP_N)
        omission == analyze_omission(rs)
        ratios == analyze_ratio(rs)
        zones == analyze_distribution(rs)
        reds == red_candidates(freq, omission, zones, ratios)
        blues == blue_candidates(freq, omission, ratios)
        red_scores == [i \in 1..Len(reds) |-> <<reds[i], RedScore(reds[i], freq, omission, zones, ratios)>>]
        blue_scores == [i \in 1..Len(blues) |-> <<blues[i], BlueScore(blues[i], freq, omission, zones)>>]
    IN IF freq.err # None THEN [err |-> freq.err]
       ELSE IF ratios.err # None THEN [err |-> ratios.err]
       ELSE IF zones.err # None THEN [err |-> zones.err]
       ELSE IF blue_scores = <<>> THEN [err |-> "IndexError"]
       ELSE [err |-> None,
             red_candidates |-> reds,
             blue_candidates |-> blues,
             suggested |-> [red |-> SuggestedReds(red_scores),
                            blue |-> SuggestedBlue(blue_scores)],
             red_scores |-> red_scores,
             blue_scores |-> blue_scores]

----------------------------------------------------------------------------
(* get_ssq_seg.py: the same analyses over the raw string records *)

\* all red tokens of the history, in the order the loops visit them
RECURSIVE AllRedTokens(_)
AllRedTokens(hist) ==
    IF hist = <<>> THEN <<>> ELSE Split(Head(hist).red, ",") \o AllRedTokens(Tail(hist))
AllBlueTokens(hist) == [i \in 1..Len(hist) |-> hist[i].blue]

\* the dict after  for k in ks: counts[k] = counts.get(k, 0) + 1  starting
\* empty: a key enters the dict at its first visit, so the items stand in the
\* order of first visit, each with the number of visits of its key
CountKeys(ks) ==
    LET firsts == SortedSet({i \in 1..Len(ks) : \A j \in 1..(i - 1) : ks[j] # ks[i]})
    IN [n \in 1..Len(firsts) |->
            <<ks[firsts[n]], Cardinality({j \in 1..Len(ks) : ks[j] = ks[firsts[n]]})>>]

frequency_analysis(hist, top_n) ==
    [err |-> None,
     red |-> Take(SortedDesc(CountKeys(AllRedTokens(hist))), top_n),
     blue |-> Take(SortedDesc(CountKeys(AllBlueTokens(hist))), top_n)]

\* cold_hot_analysis(results, recent_n=30): the frequency of the recent_n newest draws
cold_hot_analysis(hist) == frequency_analysis(Take(hist, MIN_SAMPLE), DEFAULT_TOP_N)

\* {str(i).zfill(2): 0 for i in range(1, 34)}
ZfillTable(r) == [i \in 1..(r[2] - r[1]) |-> <<Zfill2(r[1] + i - 1), 0>>]

\* the loops of omission_analysis: the same walk as Gap, on string keys;
\* current_reds is the set of tokens of the draw, current_blue its blue string
RawRedOmission(om, hist) ==
    LET drawn == <<>> \o [i \in 1..Len(hist) |-> Split(hist[i].red, ",")]
    IN [i \in 1..Len(om) |-> <<om[i][1], Gap(om[i][2], om[i][1], drawn)>>]
RawBlueOmission(om, hist) ==
    LET drawn == <<>> \o [i \in 1..Len(hist) |-> <<hist[i].blue>>]
    IN [i \in 1..Len(om) |-> <<om[i][1], Gap(om[i][2], om[i][1], drawn)>>]

omission_analysis(hist) ==
    [err |-> None,
     red |-> RawRedOmission(ZfillTable(RED_BALL_RANGE), hist),
     blue |-> RawBlueOmission(ZfillTable(BLUE_BALL_RANGE), hist)]

\* [int(red) for red in result['red'].split(',')] and int(result['blue']) of every draw
RawInts(hist) == [i \in 1..Len(hist) |-> format_result(hist[i])]
RawIntsRaise(hist) == \E i \in 1..Len(hist) : IntRaises(hist[i])

\* 1 <= blue <= 8 counts in '1-8', every other blue in '9-16'
SegBlueZoneOf(ball) == IF 1 <= ball /\ ball <= 8 THEN 1 ELSE 2

zone_distribution(hist) ==
    LET rs == RawInts(hist)
        red_zones == RedZoneTally(rs)
        blue_zones == [z \in 1..2 |-> Cardinality({i \in 1..Len(rs) : SegBlueZoneOf(rs[i].blue) = z})]
    IN IF RawIntsRaise(hist) THEN [err |-> "ValueError"]
       ELSE IF SumSeq(red_zones) = 0 \/ SumSeq(blue_zones) = 0 THEN [err |-> "ZeroDivisionError"]
       ELSE [err |-> None,
             red |-> Normalise(RedZoneLabels, red_zones),
             blue |-> Normalise(BlueZoneLabels, blue_zones)]

\* a pair of complementary tallies over their sum
PairRatio(hit, miss) == <<<<hit, hit + miss>>, <<miss, hit + miss>>>>

odd_even_ratio(hist) ==
    LET reds == AllReds(RawInts(hist))
        blues == AllBlues(RawInts(hist))
        red_odd == Cardinality({i \in 1..Len(reds) : reds[i] % 2 = 1})
        blue_odd == Cardinality({i \in 1..Len(blues) : blues[i] % 2 = 1})
    IN IF RawIntsRaise(hist) THEN [err |-> "ValueError"]
       ELSE IF Len(reds) = 0 \/ Len(blues) = 0 THEN [err |-> "ZeroDivisionError"]
       ELSE [err |-> None,
             red |-> PairRatio(red_odd, Len(reds) - red_odd),
             blue |-> PairRatio(blue_odd, Len(blues) - blue_odd)]

big_small_analysis(hist) ==
    LET reds == AllReds(RawInts(hist))
        blues == AllBlues(RawInts(hist))
        red_big == Cardinality({i \in 1..Len(reds) : reds[i] >= 17})
        blue_big == Cardinality({i \in 1..Len(blues) : blues[i] >= 9})
    IN IF RawIntsRaise(hist) THEN [err |-> "ValueError"]
       ELSE IF Len(reds) = 0 \/ Len(blues) = 0 THEN [err |-> "ZeroDivisionError"]
       ELSE [err |-> None,
             red |-> PairRatio(red_big, Len(reds) - red_big),
             blue |-> PairRatio(blue_big, Len(blues) - blue_big)]

----------------------------------------------------------------------------
(* The state machine.  history is what the supplier returned; the functions  *)
(* of get_ssq_seg.py read it as it is (pc = "raw").  get_ssq_whole.py first  *)
(* normalises every record (FormatResults), and its analyzers read the       *)
(* normalised list results (pc = "formatted").  out is the last call made:   *)
(* its name, its top_n argument where it has one, and what it returned or    *)
(* raised.  The analyzers are pure functions of the list they are given, so  *)
(* a behaviour follows one call of one analyzer (pc = "called").             *)

Call(op, arg, res) == [op |-> op, arg |-> arg, res |-> res]

Init ==
    /\ history \in GoodHistories \cup BadHistories
    /\ results = <<>>
    /\ pc = "raw"
    /\ out = Call("none", None, [err |-> None])

\* results = [LotteryAnalyzer.format_result(r) for r in raw_results]
FormatResults ==
    /\ pc = "raw"
    /\ IF RawIntsRaise(history)
       THEN /\ pc' = "failed"
            /\ results' = results
            /\ out' = Call("format_result", None, [err |-> "ValueError"])
       ELSE /\ pc' = "formatted"
            /\ results' = [i \in 1..Len(history) |-> format_result(history[i])]
            /\ out' = Call("format_result", None, [err |-> None])
    /\ UNCHANGED history

AnalyzeFrequency ==
    /\ pc = "formatted"
    /\ \E top_n \in TopNs : out' = Call("analyze_frequency", top_n, analyze_frequency(results, top_n))
    /\ pc' = "called"
    /\ UNCHANGED <<history, results>>

AnalyzeOmission ==
    /\ pc = "formatted"
    /\ out' = Call("analyze_omission", None, analyze_omission(results))
    /\ pc' = "called"
    /\ UNCHANGED <<history, results>>

AnalyzeDistribution ==
    /\ pc = "formatted"
    /\ out' = Call("analyze_distribution", None, analyze_distribution(results))
    /\ pc' = "called"
    /\ UNCHANGED <<history, results>>

AnalyzeRatio ==
    /\ pc = "formatted"
    /\ out' = Call("analyze_ratio", None, analyze_ratio(results))
    /\ pc' = "called"
    /\ UNCHANGED <<history, results>>

PredictNextResult ==
    /\ pc = "formatted"
    /\ out' = Call("predict_next_result", None, predict_next_result(results))
    /\ pc' = "called"
    /\ UNCHANGED <<history, results>>

FrequencyAnalysis ==
    /\ pc = "raw"
    /\ \E top_n \in TopNs : out' = Call("frequency_analysis", top_n, frequency_analysis(history, top_n))
    /\ pc' = "called"
    /\ UNCHANGED <<history, results>>

ColdHotAnalysis ==
    /\ pc = "raw"
    /\ out' = Call("cold_hot_analysis", None, cold_hot_analysis(history))
    /\ pc' = "called"
    /\ UNCHANGED <<history, results>>

OmissionAnalysis ==
    /\ pc = "raw"
    /\ out' = Call("omission_analysis", None, omission_analysis(history))
    /\ pc' = "called"
    /\ UNCHANGED <<history, results>>

ZoneDistribution ==
    /\ pc = "raw"
    /\ out' = Call("zone_distribution", None, zone_distribution(history))
    /\ pc' = "called"
    /\ UNCHANGED <<history, results>>

OddEvenRatio ==
    /\ pc = "raw"
    /\ out' = Call("odd_even_ratio", None, odd_even_ratio(history))
    /\ pc' = "called"
    /\ UNCHANGED <<history, results>>

BigSmallAnalysis ==
    /\ pc = "raw"
    /\ out' = Call("big_small_analysis", None, big_small_analysis(history))
    /\ pc' = "called"
    /\ UNCHANGED <<history, results>>

Next ==
    \/ FormatResults
    \/ AnalyzeFrequency
    \/ AnalyzeOmission
    \/ AnalyzeDistribution
    \/ AnalyzeRatio
    \/ PredictNextResult
    \/ FrequencyAnalysis
    \/ ColdHotAnalysis
    \/ OmissionAnalysis
    \/ ZoneDistribution
    \/ OddEvenRatio
    \/ BigSmallAnalysis

Spec == Init /\ [][Next]_vars

----------------------------------------------------------------------------
(* Properties *)

Predicted == pc = "called" /\ out.op = "predict_next_result"

\* C1: predict_next_result raises its insufficient-data error (ValueError) on
\* every corpus of fewer than 30 records, the empty one included, and raises
\* nothing on a corpus of 30 or more valid records; a valid corpus of exactly
\* 30 records is accepted while its first 29 records alone are refused.
C1_PredictThreshold ==
    Predicted =>
        /\ Len(results) < 30 => out.res.err = "ValueError"
        /\ (Len(results) >= 30 /\ ValidCorpus(results)) => out.res.err = None
        /\ (Len(results) = 30 /\ ValidCorpus(results)) =>
                predict_next_result(SubSeq(results, 1, 29)).err = "ValueError"

C1_Witness ==
    /\ Predicted
    /\ Len(results) = 30
    /\ ValidCorpus(results)
    /\ out.res.err = None
    /\ predict_next_result(SubSeq(results, 1, 29)).err = "ValueError"

\* C2: on a corpus of 30 or more valid records the suggested combination has
\* exactly 6 red balls, strictly ascending (hence pairwise distinct), all in
\* 1..33, and one blue ball in 1..16.
C2_SuggestedCombination ==
    (Predicted /\ Len(results) >= 30 /\ ValidCorpus(results)) =>
        /\ out.res.err = None
        /\ Len(out.res.suggested.red) = 6
        /\ \A i \in 1..6 : out.res.suggested.red[i] \in 1..33
        /\ \A i \in 1..5 : out.res.suggested.red[i] < out.res.suggested.red[i + 1]
        /\ out.res.suggested.blue \in 1..16

\* a prediction whose six best-scored red balls are not found in ascending
\* order of score rank, so that the final sort has work to do
C2_Witness ==
    /\ Predicted
    /\ Len(results) >= 30
    /\ ValidCorpus(results)
    /\ out.res.err = None
    /\ Len(out.res.suggested.red) = 6
    /\ Keys(Take(SortedDescFrac(out.res.red_scores), 6)) # out.res.suggested.red

\* the lists of balls drawn, draw by draw: integers of the normalised corpus,
\* tokens of the raw history
RedsDrawn == <<>> \o [i \in 1..Len(results) |-> results[i].reds]
BluesDrawn == <<>> \o [i \in 1..Len(results) |-> <<results[i].blue>>]
RedTokensDrawn == <<>> \o [i \in 1..Len(history) |-> Split(history[i].red, ",")]
BlueTokensDrawn == <<>> \o [i \in 1..Len(history) |-> <<history[i].blue>>]

Appears(ball, drawn) == \E i \in 1..Len(drawn) : InSeq(ball, drawn[i])

\* number of consecutive draws, counted from index 0 (the newest), that do
\* not hold the ball
LeadingMisses(ball, drawn) ==
    IF Appears(ball, drawn)
    THEN (CHOOSE i \in 1..Len(drawn) :
            InSeq(ball, drawn[i]) /\ \A j \in 1..(i - 1) : ~InSeq(ball, drawn[j])) - 1
    ELSE Len(drawn)

OmissionCalled == pc = "called" /\ out.op = "analyze_omission"
RawOmissionCalled == pc = "called" /\ out.op = "omission_analysis"

\* C3: on a non-empty corpus stored newest-first the omission of every ball
\* is the number of consecutive draws, counted from index 0, without it; in
\* particular it is 0 for the red balls and the blue ball of the draw at index 0.
C3_OmissionCountsFromNewest ==
    /\ (OmissionCalled /\ Len(results) >= 1) =>
        /\ \A b \in 1..33 : out.res.red[b] = LeadingMisses(b, RedsDrawn)
        /\ \A b \in 1..16 : out.res.blue[b] = LeadingMisses(b, BluesDrawn)
        /\ \A j \in 1..Len(results[1].reds) : out.res.red[results[1].reds[j]] = 0
        /\ out.res.blue[results[1].blue] = 0
    /\ (RawOmissionCalled /\ Len(history) >= 1) =>
        /\ \A b \in 1..33 : Get(out.res.red, Zfill2(b), -1) = LeadingMisses(Zfill2(b), RedTokensDrawn)
        /\ \A b \in 1..16 : Get(out.res.blue, Zfill2(b), -1) = LeadingMisses(Zfill2(b), BlueTokensDrawn)

\* C4: the omission table has one entry for every ball of the domain (1..33
\* red, 1..16 blue), every entry lies in 0..N for a corpus of N draws, and a
\* ball that no draw holds has omission N.
C4_OmissionTableTotal ==
    /\ OmissionCalled =>
        /\ out.res.err = None
        /\ DOMAIN out.res.red = 1..33
        /\ DOMAIN out.res.blue = 1..16
        /\ \A b \in 1..33 :
            /\ out.res.red[b] \in 0..Len(results)
            /\ ~Appears(b, RedsDrawn) => out.res.red[b] = Len(results)
        /\ \A b \in 1..16 :
            /\ out.res.blue[b] \in 0..Len(results)
            /\ ~Appears(b, BluesDrawn) => out.res.blue[b] = Len(results)
    /\ RawOmissionCalled =>
        /\ out.res.err = None
        /\ Keys(out.res.red) = [b \in 1..33 |-> Zfill2(b)]
        /\ Keys(out.res.blue) = [b \in 1..16 |-> Zfill2(b)]
        /\ \A b \in 1..33 :
            /\ out.res.red[b][2] \in 0..Len(history)
            /\ ~Appears(Zfill2(b), RedTokensDrawn) => out.res.red[b][2] = Len(history)
        /\ \A b \in 1..16 :
            /\ out.res.blue[b][2] \in 0..Len(history)
            /\ ~Appears(Zfill2(b), BlueTokensDrawn) => out.res.blue[b][2] = Len(history)

\* an omission table of a corpus of several draws with a ball that was drawn
\* and a ball that never was
C4_Witness ==
    /\ OmissionCalled
    /\ Len(results) >= 2
    /\ \E b \in 1..33 : Appears(b, RedsDrawn) /\ out.res.red[b] < Len(results)
    /\ \E b \in 1..33 : ~Appears(b, RedsDrawn) /\ out.res.red[b] = Len(results)
    /\ \E b \in 1..16 : ~Appears(b, BluesDrawn) /\ out.res.blue[b] = Len(results)

FrequencyCalled == pc = "called" /\ out.op = "analyze_frequency" /\ out.res.err = None
RawFrequencyCalled == pc = "called" /\ out.op = "frequency_analysis"

\* the raw history holds only records that satisfy the DrawRecord invariant
ValidHistory == ~RawIntsRaise(history) /\ ValidCorpus(RawInts(history))

\* number of different balls of one pool drawn in the corpus
DistinctDrawn(drawn) == Cardinality(UNION {SeqToSet(drawn[i]) : i \in 1..Len(drawn)})

\* C5 as stated: called without top_n (so with its default) on a corpus of
\* valid records, the frequency analyzer returns red counts that sum to
\* 6 x corpus size and blue counts that sum to the corpus size.
C5_DefaultTableSumsToAll ==
    /\ (FrequencyCalled /\ out.arg = DEFAULT_TOP_N /\ ValidCorpus(results)) =>
        /\ SumSeq(Values(out.res.red)) = 6 * Len(results)
        /\ SumSeq(Values(out.res.blue)) = Len(results)
    /\ (RawFrequencyCalled /\ out.arg = DEFAULT_TOP_N /\ ValidHistory) =>
        /\ SumSeq(Values(out.res.red)) = 6 * Len(history)
        /\ SumSeq(Values(out.res.blue)) = Len(history)

\* C5 amended: the returned table holds at most top_n entries (10 when top_n
\* is not supplied), so on a corpus of N valid records its red counts sum to
\* at most 6N and its blue counts to at most N, and they sum to exactly 6N
\* (exactly N) precisely when top_n is at least the number of different balls
\* of that pool drawn in the corpus.
C5_TableSumsToAllIffUntruncated ==
    /\ (FrequencyCalled /\ ValidCorpus(results)) =>
        /\ SumSeq(Values(out.res.red)) <= 6 * Len(results)
        /\ SumSeq(Values(out.res.red)) = 6 * Len(results) <=> out.arg >= DistinctDrawn(RedsDrawn)
        /\ SumSeq(Values(out.res.blue)) <= Len(results)
        /\ SumSeq(Values(out.res.blue)) = Len(results) <=> out.arg >= DistinctDrawn(BluesDrawn)
    /\ (RawFrequencyCalled /\ ValidHistory) =>
        /\ SumSeq(Values(out.res.red)) <= 6 * Len(history)
        /\ SumSeq(Values(out.res.red)) = 6 * Len(history) <=> out.arg >= DistinctDrawn(RedTokensDrawn)
        /\ SumSeq(Values(out.res.blue)) <= Len(history)
        /\ SumSeq(Values(out.res.blue)) = Len(history) <=> out.arg >= DistinctDrawn(BlueTokensDrawn)

\* the default call on a corpus that draws more than ten different balls of
\* each pool: both tables are cut and neither sums to the whole
C5_Witness ==
    /\ FrequencyCalled
    /\ out.arg = DEFAULT_TOP_N
    /\ ValidCorpus(results)
    /\ DistinctDrawn(RedsDrawn) > DEFAULT_TOP_N
    /\ DistinctDrawn(BluesDrawn) > DEFAULT_TOP_N
    /\ SumSeq(Values(out.res.red)) < 6 * Len(results)
    /\ SumSeq(Values(out.res.blue)) < Len(results)

\* C6: on the empty corpus every analyzer (frequency, omission, zone
\* distribution, odd/even and high/low ratio) returns a result and raises
\* nothing.
C6_EmptyCorpusNoFault ==
    /\ (pc = "called" /\ results = <<>>
        /\ out.op \in {"analyze_frequency", "analyze_omission", "analyze_distribution", "analyze_ratio"})
            => out.res.err = None
    /\ (pc = "called" /\ history = <<>>
        /\ out.op \in {"frequency_analysis", "omission_analysis", "zone_distribution",
                       "odd_even_ratio", "big_small_analysis"})
            => out.res.err = None

\* the values of a sequence of quotients sum to 1: one common positive
\* denominator, and numerators that sum to it
SumToOne(fracs) ==
    /\ \A i \in 1..Len(fracs) : fracs[i][2] = fracs[1][2] /\ fracs[i][2] > 0
    /\ SumSeq([i \in 1..Len(fracs) |-> fracs[i][1]]) = fracs[1][2]

\* C7: on a non-empty corpus of N valid records the zone fractions of each
\* pool sum to 1, odd + even = 1 and big + small = 1 for each pool, and the
\* tallies behind them sum to 6N for red and to N for blue.
C7_FractionsSumToOne ==
    /\ (pc = "called" /\ out.op = "analyze_distribution" /\ Len(results) >= 1 /\ ValidCorpus(results)) =>
        /\ out.res.err = None
        /\ SumToOne(Values(out.res.red)) /\ out.res.red[1][2][2] = 6 * Len(results)
        /\ SumToOne(Values(out.res.blue)) /\ out.res.blue[1][2][2] = Len(results)
    /\ (pc = "called" /\ out.op = "analyze_ratio" /\ Len(results) >= 1 /\ ValidCorpus(results)) =>
        /\ out.res.err = None
        /\ SumToOne(<<out.res.red.odd, out.res.red.even>>)
        /\ SumToOne(<<out.res.red.big, out.res.red.small>>)
        /\ out.res.red.odd[2] = 6 * Len(results) /\ out.res.red.big[2] = 6 * Len(results)
        /\ SumToOne(<<out.res.blue.odd, out.res.blue.even>>)
        /\ SumToOne(<<out.res.blue.big, out.res.blue.small>>)
        /\ out.res.blue.odd[2] = Len(results) /\ out.res.blue.big[2] = Len(results)
    /\ (pc = "called" /\ out.op = "zone_distribution" /\ Len(history) >= 1 /\ ValidHistory) =>
        /\ out.res.err = None
        /\ SumToOne(Values(out.res.red)) /\ out.res.red[1][2][2] = 6 * Len(history)
        /\ SumToOne(Values(out.res.blue)) /\ out.res.blue[1][2][2] = Len(history)
    /\ (pc = "called" /\ out.op \in {"odd_even_ratio", "big_small_analysis"}
        /\ Len(history) >= 1 /\ ValidHistory) =>
        /\ out.res.err = None
        /\ SumToOne(out.res.red) /\ out.res.red[1][2] = 6 * Len(history)
        /\ SumToOne(out.res.blue) /\ out.res.blue[1][2] = Len(history)

\* a ratio analysis in which every category of the red pool is populated
C7_Witness ==
    /\ pc = "called" /\ out.op = "analyze_ratio"
    /\ Len(results) >= 2 /\ ValidCorpus(results)
    /\ out.res.err = None
    /\ out.res.red.odd[1] > 0 /\ out.res.red.even[1] > 0
    /\ out.res.red.big[1] > 0 /\ out.res.red.small[1] > 0
    /\ out.res.red.odd[1] + out.res.red.even[1] = 6 * Len(results)

\* number of times a ball was drawn in the corpus
Occurrences(ball, drawn) ==
    SumSeq([i \in 1..Len(drawn) |-> Cardinality({j \in 1..Len(drawn[i]) : drawn[i][j] = ball})])

\* position of the first visit of a key in a list of visits
FirstVisit(k, visits) ==
    CHOOSE i \in 1..Len(visits) : visits[i] = k /\ \A j \in 1..(i - 1) : visits[j] # k

\* table holds the first n entries of the listing of the balls universe[u],
\* each with its count cnt[u], by descending count and, among equal counts,
\* by ascending rank rnk[u]
IsTopOf(table, n, universe, cnt, rnk) ==
    LET before(u, v) == cnt[u] > cnt[v] \/ (cnt[u] = cnt[v] /\ rnk[u] < rnk[v])
        at == <<>> \o [i \in 1..Len(table) |->
                    CHOOSE u \in 1..Len(universe) : universe[u] = table[i][1]]
    IN /\ Len(table) = Min(n, Len(universe))
       /\ \A i \in 1..Len(table) :
            \E u \in 1..Len(universe) : table[i] = <<universe[u], cnt[u]>>
       /\ \A i \in 1..(Len(table) - 1) : before(at[i], at[i + 1])
       /\ \A u \in 1..Len(universe) :
            (\A i \in 1..Len(table) : at[i] # u) =>
                \A i \in 1..Len(table) : before(at[i], u)

\* the balls of a pool, the tokens the supplier writes for them, and the
\* balls whose token the history holds, ascending
Balls(dom) == SortedSet(dom)
BallsDrawn(dom, drawn) == SortedSet({b \in dom : Appears(Zfill2(b), drawn)})
TokensOf(balls) == <<>> \o [i \in 1..Len(balls) |-> Zfill2(balls[i])]
CountsOf(keys, drawn) == <<>> \o [i \in 1..Len(keys) |-> Occurrences(keys[i], drawn)]
FirstVisits(keys, visits) == <<>> \o [i \in 1..Len(keys) |-> FirstVisit(keys[i], visits)]

\* every token of the history is the two-digit token of a ball of its pool
TwoDigitHistory ==
    LET reds == RedTokensDrawn
        red_tokens == {Zfill2(b) : b \in 1..33}
        blue_tokens == {Zfill2(b) : b \in 1..16}
    IN /\ \A i \in 1..Len(reds) : \A j \in 1..Len(reds[i]) : reds[i][j] \in red_tokens
       /\ \A i \in 1..Len(history) : history[i].blue \in blue_tokens

\* C8 as stated: for every corpus and every top_n the frequency table of each
\* pool lists the first top_n entries of the ordering by descending count and,
\* among equal counts, ascending ball value.
C8_TiesByBallValue ==
    /\ FrequencyCalled =>
        /\ IsTopOf(out.res.red, out.arg, Balls(1..33),
                   CountsOf(Balls(1..33), RedsDrawn), Balls(1..33))
        /\ IsTopOf(out.res.blue, out.arg, Balls(1..16),
                   CountsOf(Balls(1..16), BluesDrawn), Balls(1..16))
    /\ (RawFrequencyCalled /\ TwoDigitHistory) =>
        /\ IsTopOf(out.res.red, out.arg, TokensOf(BallsDrawn(1..33, RedTokensDrawn)),
                   CountsOf(TokensOf(BallsDrawn(1..33, RedTokensDrawn)), RedTokensDrawn),
                   BallsDrawn(1..33, RedTokensDrawn))
        /\ IsTopOf(out.res.blue, out.arg, TokensOf(BallsDrawn(1..16, BlueTokensDrawn)),
                   CountsOf(TokensOf(BallsDrawn(1..16, BlueTokensDrawn)), BlueTokensDrawn),
                   BallsDrawn(1..16, BlueTokensDrawn))

\* C8 amended: the table of each pool lists the first top_n entries of the
\* ordering by descending count in which entries of equal count keep the
\* order in which their balls entered the count table: ascending ball value
\* in analyze_frequency, whose table is filled over the whole range
\* beforehand, and order of first appearance in the corpus in
\* frequency_analysis, whose table holds the drawn balls only.
C8_TiesByTableOrder ==
    /\ FrequencyCalled =>
        /\ IsTopOf(out.res.red, out.arg, Balls(1..33),
                   CountsOf(Balls(1..33), RedsDrawn), Balls(1..33))
        /\ IsTopOf(out.res.blue, out.arg, Balls(1..16),
                   CountsOf(Balls(1..16), BluesDrawn), Balls(1..16))
    /\ (RawFrequencyCalled /\ TwoDigitHistory) =>
        /\ IsTopOf(out.res.red, out.arg, TokensOf(BallsDrawn(1..33, RedTokensDrawn)),
                   CountsOf(TokensOf(BallsDrawn(1..33, RedTokensDrawn)), RedTokensDrawn),
                   FirstVisits(TokensOf(BallsDrawn(1..33, RedTokensDrawn)), AllRedTokens(history)))
        /\ IsTopOf(out.res.blue, out.arg, TokensOf(BallsDrawn(1..16, BlueTokensDrawn)),
                   CountsOf(TokensOf(BallsDrawn(1..16, BlueTokensDrawn)), BlueTokensDrawn),
                   FirstVisits(TokensOf(BallsDrawn(1..16, BlueTokensDrawn)), AllBlueTokens(history)))

\* a table of frequency_analysis, cut by top_n, in which two balls of equal
\* count stand in order of first appearance and against their values
C8_Witness ==
    /\ RawFrequencyCalled /\ TwoDigitHistory
    /\ Len(out.res.red) = out.arg
    /\ DistinctDrawn(RedTokensDrawn) > out.arg
    /\ \E i \in 1..Len(out.res.red) : \E j \in (i + 1)..Len(out.res.red) :
        /\ out.res.red[i][2] = out.res.red[j][2]
        /\ IntOf(out.res.red[i][1]) > IntOf(out.res.red[j][1])
        /\ FirstVisit(out.res.red[i][1], AllRedTokens(history))
            < FirstVisit(out.res.red[j][1], AllRedTokens(history))

\* a raw record that passes normalisation: its red field holds exactly 6
\* distinct numbers in 1..33 and its blue field one number in 1..16
WellFormed(result) == ~IntRaises(result) /\ ValidRecord(format_result(result))

\* C9: a raw record that fails normalisation is rejected with an error at
\* format_result, so the normalisation of a history that holds one does not
\* complete, and no list handed to the analyzers holds a record that breaks
\* the DrawRecord invariant.
C9_MalformedRejected ==
    /\ (out.op = "format_result" /\ \E i \in 1..Len(history) : ~WellFormed(history[i]))
            => (out.res.err # None /\ pc = "failed")
    /\ pc \in {"formatted", "called"} => ValidCorpus(results)

\* the frequency tables the claim's "by count over the corpus" can mean: the
\* table over the whole range, and the table of the balls that appeared
CorpusTables(all_pool) ==
    {all_pool, SelectSeq(all_pool, LAMBDA item : item[2] > 0)}

\* the tables "present in the frequency table" can mean: the corpus table,
\* its k_freq first entries, and the table the predictor holds
ZoneTables(table, k_freq, held) == {table, Take(table, k_freq), held}

\* the four filters of the claim for one colour: the k_freq most frequent
\* balls of the corpus, the k_om balls of greatest omission, the balls of the
\* most populous zone that the frequency table holds, and the balls of the
\* majority parity
ClaimedCandidates(table, zone_table, om_pool, zones_pool, ratio_pool, r, k_freq, k_om) ==
    SortedSet(SeqToSet(Take(Keys(table), k_freq))
              \cup TopOmission(om_pool, r, k_om)
              \cup ZoneCandidates(zones_pool, zone_table)
              \cup ParityCandidates(ratio_pool, r))

\* C10: on a corpus of 30 or more records the candidate list of each colour
\* is the sorted union of the four filters: top 15 red / top 5 blue by count
\* over the corpus, top 10 red / top 3 blue by omission, the balls of the
\* most populous zone present in the frequency table, and the balls of the
\* majority parity (under some reading of "the frequency table").
C10_CandidatesAreUnionOfFourFilters ==
    (Predicted /\ Len(results) >= 30 /\ ValidCorpus(results)) =>
        LET all == analyze_frequency(results, Cardinality(RedDomain))
            freq == analyze_frequency(results, DEFAULT_TOP_N)
            omission == analyze_omission(results)
            zones == analyze_distribution(results)
            ratios == analyze_ratio(results)
        IN /\ out.res.err = None
           /\ \E table \in CorpusTables(all.red) :
                \E zone_table \in ZoneTables(table, 15, freq.red) :
                    out.res.red_candidates =
                        ClaimedCandidates(table, zone_table, omission.red, zones.red,
                                          ratios.red, RED_BALL_RANGE, 15, 10)
           /\ \E table \in CorpusTables(all.blue) :
                \E zone_table \in ZoneTables(table, 5, freq.blue) :
                    out.res.blue_candidates =
                        ClaimedCandidates(table, zone_table, omission.blue, zones.blue,
                                          ratios.blue, BLUE_BALL_RANGE, 5, 3)

\* number of consecutive draws, counted back from the end of the list, that do
\* not hold the ball: the omission the analyzer reports
TrailingMisses(ball, drawn) ==
    IF Appears(ball, drawn)
    THEN Len(drawn) - (CHOOSE i \in 1..Len(drawn) :
            InSeq(ball, drawn[i]) /\ \A j \in (i + 1)..Len(drawn) : ~InSeq(ball, drawn[j]))
    ELSE Len(drawn)

\* the ball's count in the frequency table the predictor holds: the 10 first
\* balls by descending count, ascending ball among equal counts; 0 if absent
HeldCount(ball, cnt) ==
    IF Cardinality({c \in DOMAIN cnt :
            cnt[c] > cnt[ball] \/ (cnt[c] = cnt[ball] /\ c < ball)}) < DEFAULT_TOP_N
    THEN cnt[ball] ELSE 0

\* number of red balls drawn that fall in the zone of the ball
\* (1-11, 12-22, 23-33)
ZoneOccurrences(ball, cnt) ==
    LET lo == IF ball <= 11 THEN 1 ELSE IF ball <= 22 THEN 12 ELSE 23
    IN SumSeq([k \in 1..11 |-> cnt[lo + k - 1]])

\* 1 if the ball's parity is the one drawn in more than half of the T
\* occurrences, 0 otherwise
MajorityParity(ball, cnt, T) ==
    IF 2 * SumSeq([k \in 1..Len(cnt) |-> IF k % 2 = ball % 2 THEN cnt[k] ELSE 0]) > T
    THEN 1 ELSE 0

\* 0.4 f + 0.3 / (o + 1) + 0.2 z / T + parity / 100 as the quotient
\* <<num, den>> in units of 1 / (100 T)
WeightedSum(f, o, z, T, parity) ==
    <<(40 * f * T + 20 * z + parity * T) * (o + 1) + 30 * T, o + 1>>

\* a score of the table, <<num, den>> in units of 1 / (10 T), equals a
\* quotient in units of 1 / (100 T)
SameScore(score, claimed) == 10 * score[1] * claimed[2] = claimed[1] * score[2]

RedCountsDrawn == <<>> \o [b \in 1..33 |-> Occurrences(b, RedsDrawn)]

\* C11 as stated: on a corpus of 30 or more records the keys of the red score
\* table are the red candidates, every score is non-negative and equals
\* 0.4 x frequencyCount + 0.3 x 1/(omission+1) + 0.2 x zoneFraction
\* + 0.1 x parityBonus with parityBonus 0.1 for a ball of the majority parity
\* (a parity term of 0.01), whichever of the count in the predictor's table
\* or in the corpus, and of the omission from either end of the list, is meant.
C11_RedScoreFormula ==
    (Predicted /\ Len(results) >= 30 /\ ValidCorpus(results)) =>
        LET cnt == RedCountsDrawn
            drawn == RedsDrawn
            T == 6 * Len(results)
            scores == out.res.red_scores
        IN /\ out.res.err = None
           /\ Keys(scores) = out.res.red_candidates
           /\ \A i \in 1..Len(scores) :
                LET ball == scores[i][1]
                IN /\ scores[i][2][1] >= 0 /\ scores[i][2][2] > 0
                   /\ \E f \in {HeldCount(ball, cnt), cnt[ball]} :
                        \E o \in {TrailingMisses(ball, drawn), LeadingMisses(ball, drawn)} :
                            SameScore(scores[i][2],
                                      WeightedSum(f, o, ZoneOccurrences(ball, cnt), T,
                                                  MajorityParity(ball, cnt, T)))

\* C11 (amended): the same with a parity term of 0.1 (0.1 x parityBonus with
\* parityBonus 1), frequencyCount the ball's count in the table the predictor
\* holds (0 for a ball absent from it) and omission the value of the omission
\* table.
C11_RedScoreFlatParityBonus ==
    (Predicted /\ Len(results) >= 30 /\ ValidCorpus(results)) =>
        LET cnt == RedCountsDrawn
            drawn == RedsDrawn
            T == 6 * Len(results)
            scores == out.res.red_scores
        IN /\ out.res.err = None
           /\ Keys(scores) = out.res.red_candidates
           /\ \A i \in 1..Len(scores) :
                LET ball == scores[i][1]
                IN /\ scores[i][2][1] >= 0 /\ scores[i][2][2] > 0
                   /\ SameScore(scores[i][2],
                                WeightedSum(HeldCount(ball, cnt), TrailingMisses(ball, drawn),
                                            ZoneOccurrences(ball, cnt), T,
                                            10 * MajorityParity(ball, cnt, T)))

\* a prediction that scores a ball of the majority parity, a ball of the
\* other parity, and a ball that was drawn but is absent from the table the
\* predictor holds
C11_Witness ==
    /\ Predicted /\ Len(results) >= 30 /\ ValidCorpus(results)
    /\ out.res.err = None
    /\ LET cnt == RedCountsDrawn
           T == 6 * Len(results)
           balls == SeqToSet(Keys(out.res.red_scores))
       IN /\ \E b \in balls : MajorityParity(b, cnt, T) = 1
          /\ \E b \in balls : MajorityParity(b, cnt, T) = 0
          /\ \E b \in balls : cnt[b] > 0 /\ HeldCount(b, cnt) = 0

====
